---- MODULE Spec2Model ----
(***************************************************************************)
(* stout/protobuf.hpp: the framed record stream (protobuf::write and       *)
(* protobuf::read on a file descriptor) and the reflective codec between   *)
(* JSON values and protobuf messages (protobuf::parse, JSON::Protobuf).    *)
(*                                                                         *)
(* Representation:                                                         *)
(*  - a std::string value is the sequence of its byte codes;               *)
(*  - a number (double, int64, ...) is a sign and a magnitude of three     *)
(*    24-bit limbs <<hi, mid, lo>>, so that 64-bit values and the 53-bit   *)
(*    mantissa of a double keep their width; a double whose bit pattern    *)
(*    was read from a file and is outside the table of known patterns      *)
(*    carries that pattern in "raw";                                       *)
(*  - a message is [type, has, val]: the has-bit and the stored value of   *)
(*    every field (the declared default when the field is unset), a        *)
(*    repeated field being the sequence of its elements;                   *)
(*  - a JSON value is a record tagged by "kind"; a JSON::Object holds its  *)
(*    members as a sequence of [name, value] in key order (std::map).      *)
(***************************************************************************)
EXTENDS Integers, Sequences, FiniteSets, TLC

\* ------------------------------------------------------------------ bounds
MaxFileLen == 22      \* longest file the writer produces, in bytes
MaxFaults == 1        \* injected I/O failures of ::write per behaviour
MaxRepeated == 2      \* longest repeated field / JSON array of the inputs

\* ----------------------------------------------------------------- helpers
Min(a, b) == IF a < b THEN a ELSE b

Range(s) == {s[i] : i \in 1..Len(s)}

SeqsUpTo(S, n) == UNION {[1..k -> S] : k \in 0..n}

\* ----------------------------------------------------------------- numbers
Limb == 2^24

Num(neg, hi, mid, lo) == [neg |-> neg, mag |-> <<hi, mid, lo>>, raw |-> <<>>]

N(n) == Num(FALSE, 0, 0, n)

\* carry propagation after the low limb was rounded up
Carry(hi, mid, lo) ==
  LET c0 == lo \div Limb
      m1 == mid + c0
      c1 == m1 \div Limb
  IN  <<hi + c1, (m1 % Limb), (lo % Limb)>>

RECURSIVE BitLen(_)
BitLen(n) == IF n = 0 THEN 0 ELSE 1 + BitLen(n \div 2)

\* (double) of an integer: round to a 53-bit mantissa, ties to even
ToDouble(n) ==
  LET hi == n.mag[1]
      mid == n.mag[2]
      lo == n.mag[3]
      shift == BitLen(hi) - 5       \* bits above 53: 48 + BitLen(hi) - 53
      q == 2^shift
      r == lo % q
      base == lo - r
      up == r > q \div 2 \/ (r = q \div 2 /\ (base \div q) % 2 = 1)
  IN  IF shift <= 0 THEN n
      ELSE [n EXCEPT !.mag = Carry(hi, mid, base + (IF up THEN q ELSE 0))]

\* static_cast<int64_t>(number.value) of an integral double within the range
\* of int64_t
CastInt64(d) ==
  CASE d.mag[1] < 2^15 \/ (d.neg /\ d.mag = <<2^15, 0, 0>>) -> d

\* static_cast<uint64_t>(number.value) of an integral double within range
CastUInt64(d) ==
  CASE ~d.neg /\ d.mag[1] < 2^16 -> d

\* static_cast<int32_t>(number.value) of an integral double within range
CastInt32(d) ==
  CASE d.mag[1] = 0 /\ d.mag[2] < 2^7 -> d

\* static_cast<uint32_t>(number.value) of an integral double within range
CastUInt32(d) ==
  CASE ~d.neg /\ d.mag[1] = 0 /\ d.mag[2] < 2^8 -> d

\* static_cast<float>(number.value) of an integral double below 2^48: round
\* to a 24-bit mantissa, ties to even
CastFloat(d) ==
  CASE d.mag[1] = 0 ->
    LET mid == d.mag[2]
        lo == d.mag[3]
        q == 2^BitLen(mid)
        r == lo % q
        base == lo - r
        up == r > q \div 2 \/ (r = q \div 2 /\ (base \div q) % 2 = 1)
    IN  IF mid = 0 THEN d
        ELSE [d EXCEPT !.mag = Carry(0, mid, base + (IF up THEN q ELSE 0))]

P24 == Num(FALSE, 0, 1, 0)           \* 2^24
P24plus1 == Num(FALSE, 0, 1, 1)      \* 2^24 + 1
P53 == Num(FALSE, 32, 0, 0)          \* 2^53
P53plus1 == Num(FALSE, 32, 0, 1)     \* 2^53 + 1

\* the std::string values of the model
Str_empty == <<>>
Str_a == <<97>>
Str_b == <<98>>
Str_ops == <<111, 112, 115>>

\* ------------------------------------------------------------- descriptors
FieldDescriptor(name, number, label, type, has_default, sub) ==
  [name |-> name, number |-> number, label |-> label, type |-> type,
   has_default |-> has_default, sub |-> sub]

RoleInfo ==
  << FieldDescriptor("name", 1, "required", "TYPE_STRING", FALSE, ""),
     FieldDescriptor("weight", 2, "optional", "TYPE_DOUBLE", TRUE, "") >>

\* mesos.proto, imported by allocator.proto
FrameworkID ==
  << FieldDescriptor("value", 1, "required", "TYPE_STRING", FALSE, "") >>

TimeInfo ==
  << FieldDescriptor("nanoseconds", 1, "required", "TYPE_INT64", FALSE, "") >>

InverseOfferStatus ==
  << FieldDescriptor("status", 1, "required", "TYPE_ENUM", FALSE, "Status"),
     FieldDescriptor("framework_id", 2, "required", "TYPE_MESSAGE", FALSE,
                     "FrameworkID"),
     FieldDescriptor("timestamp", 3, "required", "TYPE_MESSAGE", FALSE,
                     "TimeInfo") >>

\* a message type with repeated fields, for the template parameter T of the
\* codec: repeated message, repeated enum, repeated int64, optional bool
Sample ==
  << FieldDescriptor("roles", 1, "repeated", "TYPE_MESSAGE", FALSE, "RoleInfo"),
     FieldDescriptor("statuses", 2, "repeated", "TYPE_ENUM", FALSE, "Status"),
     FieldDescriptor("ids", 3, "repeated", "TYPE_INT64", FALSE, ""),
     FieldDescriptor("flag", 4, "optional", "TYPE_BOOL", FALSE, "") >>

\* google::protobuf::FieldDescriptor::Type, in the order of the enum
TypeList ==
  << "TYPE_DOUBLE", "TYPE_FLOAT", "TYPE_INT64", "TYPE_UINT64", "TYPE_INT32",
     "TYPE_FIXED64", "TYPE_FIXED32", "TYPE_BOOL", "TYPE_STRING", "TYPE_GROUP",
     "TYPE_MESSAGE", "TYPE_BYTES", "TYPE_UINT32", "TYPE_ENUM", "TYPE_SFIXED32",
     "TYPE_SFIXED64", "TYPE_SINT32", "TYPE_SINT64" >>

SingularNames ==
  << "double", "float", "int64", "uint64", "int32", "fixed64", "fixed32",
     "bool", "string", "group", "message", "bytes", "uint32", "enum",
     "sfixed32", "sfixed64", "sint32", "sint64" >>

RepeatedNames ==
  << "doubles", "floats", "int64s", "uint64s", "int32s", "fixed64s",
     "fixed32s", "bools", "strings", "groups", "messages", "bytess",
     "uint32s", "enums", "sfixed32s", "sfixed64s", "sint32s", "sint64s" >>

SubType(type) ==
  IF type \in {"TYPE_MESSAGE", "TYPE_GROUP"} THEN "RoleInfo"
  ELSE IF type = "TYPE_ENUM" THEN "Status" ELSE ""

\* a message type with one optional and one repeated field of every
\* FieldDescriptor::Type, for the switches on field->type()
AllTypes ==
  [i \in 1..(2 * Len(TypeList)) |->
     IF i <= Len(TypeList)
     THEN FieldDescriptor(SingularNames[i], i, "optional", TypeList[i], FALSE,
                          SubType(TypeList[i]))
     ELSE LET k == i - Len(TypeList)
          IN  FieldDescriptor(RepeatedNames[k], i, "repeated", TypeList[k],
                              FALSE, SubType(TypeList[k]))]

Descriptor(T) ==
  CASE T = "RoleInfo" -> RoleInfo
    [] T = "AllTypes" -> AllTypes
    [] T = "FrameworkID" -> FrameworkID
    [] T = "TimeInfo" -> TimeInfo
    [] T = "InverseOfferStatus" -> InverseOfferStatus
    [] T = "Sample" -> Sample

\* enum Status: value names and numbers
Str_UNKNOWN == <<85, 78, 75, 78, 79, 87, 78>>
Str_ACCEPT == <<65, 67, 67, 69, 80, 84>>
Str_DECLINE == <<68, 69, 67, 76, 73, 78, 69>>
Str_BOGUS == <<66, 79, 71, 85, 83>>

Status ==
  << [name |-> Str_UNKNOWN, number |-> 1],
     [name |-> Str_ACCEPT, number |-> 2],
     [name |-> Str_DECLINE, number |-> 3] >>

\* enum_type()->FindValueByName(name): the number of the value, 0 for NULL
FindValueByName(name) ==
  LET hit == {i \in 1..Len(Status) : Status[i].name = name}
  IN  IF hit = {} THEN 0 ELSE Status[CHOOSE i \in hit : TRUE].number

\* EnumValueDescriptor::name()
EnumName(number) ==
  Status[CHOOSE i \in 1..Len(Status) : Status[i].number = number].name

FieldNames(T) == {Descriptor(T)[i].name : i \in 1..Len(Descriptor(T))}

\* a lookup that falls back to the first field for a name it does not know
FindFieldByName_first(T, name) ==
  LET hit == {i \in 1..Len(Descriptor(T)) : Descriptor(T)[i].name = name}
  IN  IF hit = {} THEN 1 ELSE CHOOSE i \in hit : TRUE

\* GetDescriptor()->FindFieldByName(name): the index of the field, 0 for NULL
FindFieldByName(T, name) ==
  LET hit == {i \in 1..Len(Descriptor(T)) : Descriptor(T)[i].name = name}
  IN  IF hit = {} THEN 0 ELSE CHOOSE i \in hit : TRUE

is_repeated(f) == f.label = "repeated"

RECURSIVE NewMessage(_)
default_value(T, f) ==
  CASE f.type \in {"TYPE_STRING", "TYPE_BYTES"} -> Str_empty
    [] f.type = "TYPE_DOUBLE" -> IF T = "RoleInfo" /\ f.name = "weight"
                                 THEN N(1) ELSE N(0)
    [] f.type \in {"TYPE_FLOAT", "TYPE_INT64", "TYPE_SINT64", "TYPE_SFIXED64",
                   "TYPE_UINT64", "TYPE_FIXED64", "TYPE_INT32", "TYPE_SINT32",
                   "TYPE_SFIXED32", "TYPE_UINT32", "TYPE_FIXED32"} -> N(0)
    [] f.type = "TYPE_BOOL" -> FALSE
    [] f.type = "TYPE_ENUM" -> Status[1].number
    [] f.type \in {"TYPE_MESSAGE", "TYPE_GROUP"} -> NewMessage(f.sub)

NewMessage(T) ==
  [type |-> T,
   has |-> [n \in FieldNames(T) |-> FALSE],
   val |-> [n \in FieldNames(T) |->
              LET f == Descriptor(T)[FindFieldByName(T, n)]
              IN  IF is_repeated(f) THEN <<>> ELSE default_value(T, f)]]

RECURSIVE IsInitialized(_)
IsInitialized(m) ==
  \A i \in 1..Len(Descriptor(m.type)) :
    LET f == Descriptor(m.type)[i]
    IN  /\ f.label = "required" => m.has[f.name]
        /\ f.type = "TYPE_MESSAGE" =>
             IF is_repeated(f)
             THEN \A k \in 1..Len(m.val[f.name]) : IsInitialized(m.val[f.name][k])
             ELSE m.has[f.name] => IsInitialized(m.val[f.name])


\* ------------------------------------------------- protobuf wire format
\* What Message::ByteSize, SerializeToFileDescriptor and
\* ParseFromZeroCopyStream do for the field types sent through the stream
\* (string: length-delimited, double: 64-bit little-endian IEEE-754).
WIRETYPE_VARINT == 0
WIRETYPE_FIXED64 == 1
WIRETYPE_LENGTH_DELIMITED == 2
WIRETYPE_START_GROUP == 3
WIRETYPE_END_GROUP == 4
WIRETYPE_FIXED32 == 5

MakeTag(number, wt) == number * 8 + wt

WireType(type) ==
  CASE type = "TYPE_STRING" -> WIRETYPE_LENGTH_DELIMITED
    [] type = "TYPE_DOUBLE" -> WIRETYPE_FIXED64

RECURSIVE Varint(_)
Varint(n) == IF n < 128 THEN <<n>> ELSE <<128 + (n % 128)>> \o Varint(n \div 128)

\* bit patterns of the doubles the writer sends
DoubleBits(d) ==
  CASE d.raw # <<>> -> d.raw
    [] d = N(0) -> <<0, 0, 0, 0, 0, 0, 0, 0>>
    [] d = N(1) -> <<0, 0, 0, 0, 0, 0, 240, 63>>
    [] d = N(2) -> <<0, 0, 0, 0, 0, 0, 0, 64>>

BitsDouble(b) ==
  CASE b = <<0, 0, 0, 0, 0, 0, 0, 0>> -> N(0)
    [] b = <<0, 0, 0, 0, 0, 0, 240, 63>> -> N(1)
    [] b = <<0, 0, 0, 0, 0, 0, 0, 64>> -> N(2)
    [] OTHER -> [neg |-> FALSE, mag |-> <<0, 0, 0>>, raw |-> b]

SerializeField(m, f) ==
  IF ~m.has[f.name] THEN <<>>
  ELSE CASE f.type = "TYPE_STRING" ->
              <<MakeTag(f.number, WireType(f.type))>>
                \o Varint(Len(m.val[f.name])) \o m.val[f.name]
         [] f.type = "TYPE_DOUBLE" ->
              <<MakeTag(f.number, WireType(f.type))>> \o DoubleBits(m.val[f.name])

RECURSIVE SerializeFrom(_, _)
SerializeFrom(m, i) ==
  IF i > Len(Descriptor(m.type)) THEN <<>>
  ELSE SerializeField(m, Descriptor(m.type)[i]) \o SerializeFrom(m, i + 1)

Serialize(m) == SerializeFrom(m, 1)

ByteSize(m) == Len(Serialize(m))

\* a varint of at most four bytes starting at data[i]
RECURSIVE ReadVarintFrom(_, _, _, _)
ReadVarintFrom(data, i, mult, acc) ==
  IF i > Len(data) THEN [ok |-> FALSE, value |-> 0, next |-> i]
  ELSE LET v == acc + (data[i] % 128) * mult
       IN  IF data[i] < 128 THEN [ok |-> TRUE, value |-> v, next |-> i + 1]
           ELSE CASE mult < 2^21 -> ReadVarintFrom(data, i + 1, mult * 128, v)

ReadVarint(data, i) == ReadVarintFrom(data, i, 1, 0)

FindFieldByNumber(T, number) ==
  LET hit == {i \in 1..Len(Descriptor(T)) : Descriptor(T)[i].number = number}
  IN  IF hit = {} THEN 0 ELSE CHOOSE i \in hit : TRUE

\* WireFormat::SkipField / SkipMessage: the index after the skipped bytes,
\* 0 on failure; SkipMessage also yields the tag that ended it.
RECURSIVE SkipField(_, _, _), SkipMessage(_, _)
SkipField(data, tag, i) ==
  LET wt == tag % 8
  IN  CASE wt = WIRETYPE_VARINT ->
             LET v == ReadVarint(data, i) IN IF v.ok THEN v.next ELSE 0
        [] wt = WIRETYPE_FIXED64 -> IF i + 7 <= Len(data) THEN i + 8 ELSE 0
        [] wt = WIRETYPE_LENGTH_DELIMITED ->
             LET v == ReadVarint(data, i)
             IN  IF v.ok /\ v.next + v.value - 1 <= Len(data)
                 THEN v.next + v.value ELSE 0
        [] wt = WIRETYPE_START_GROUP ->
             LET g == SkipMessage(data, i)
             IN  IF g.next # 0
                    /\ g.last = MakeTag(tag \div 8, WIRETYPE_END_GROUP)
                 THEN g.next ELSE 0
        [] wt = WIRETYPE_FIXED32 -> IF i + 3 <= Len(data) THEN i + 4 ELSE 0
        [] OTHER -> 0

SkipMessage(data, i) ==
  IF i > Len(data) THEN [next |-> i, last |-> 0]
  ELSE LET t == ReadVarint(data, i)
       IN  IF ~t.ok THEN [next |-> 0, last |-> 0]
           ELSE IF t.value = 0 \/ t.value % 8 = WIRETYPE_END_GROUP
           THEN [next |-> t.next, last |-> t.value]
           ELSE LET n == SkipField(data, t.value, t.next)
                IN  IF n = 0 THEN [next |-> 0, last |-> 0]
                    ELSE SkipMessage(data, n)

\* MergePartialFromCodedStream: fields of data[i..] merged into m
RECURSIVE MergeFrom(_, _, _)
MergeFrom(m, data, i) ==
  IF i > Len(data) THEN [ok |-> TRUE, msg |-> m]
  ELSE
    LET t == ReadVarint(data, i)
        fail == [ok |-> FALSE, msg |-> m]
    IN
    IF ~t.ok \/ t.value = 0 \/ t.value % 8 = WIRETYPE_END_GROUP THEN fail
    ELSE
      LET idx == FindFieldByNumber(m.type, t.value \div 8)
          f == Descriptor(m.type)[idx]
      IN
      IF idx # 0 /\ t.value % 8 = WireType(f.type)
      THEN CASE f.type = "TYPE_STRING" ->
                  LET v == ReadVarint(data, t.next)
                  IN  IF v.ok /\ v.next + v.value - 1 <= Len(data)
                      THEN MergeFrom(
                             [m EXCEPT !.has[f.name] = TRUE,
                                       !.val[f.name] =
                                         SubSeq(data, v.next, v.next + v.value - 1)],
                             data, v.next + v.value)
                      ELSE fail
             [] f.type = "TYPE_DOUBLE" ->
                  IF t.next + 7 <= Len(data)
                  THEN MergeFrom(
                         [m EXCEPT !.has[f.name] = TRUE,
                                   !.val[f.name] =
                                     BitsDouble(SubSeq(data, t.next, t.next + 7))],
                         data, t.next + 8)
                  ELSE fail
      ELSE LET n == SkipField(data, t.value, t.next)
           IN  IF n = 0 THEN fail ELSE MergeFrom(m, data, n)

\* T message; message.ParseFromZeroCopyStream(&stream)
ParseFromZeroCopyStream(T, data) ==
  LET r == MergeFrom(NewMessage(T), data, 1)
  IN  [ok |-> r.ok /\ IsInitialized(r.msg), msg |-> r.msg]


\* ------------------------------------------------------------ the handle
VARIABLES
  content,   \* the bytes of the file behind fd
  cursor,    \* the file offset of fd
  ret,       \* what the last call of write or read returned
  call,      \* the last call: its name, arguments and injected I/O failure
  old,       \* content and cursor when the last write or read started
  written,   \* the messages written so far by successful writes
  dirty,     \* some write failed part-way: the file is not a run of frames
  rd,        \* reads since the cursor was rewound to 0, -1 when not counted
  faults     \* I/O failures of ::write injected so far

streamVars == <<content, cursor, ret, call, old, written, dirty, rd, faults>>

\* the message type the stream carries (template parameter T of read)
StreamType == "RoleInfo"

NoMessage == NewMessage(StreamType)

\* Try<Nothing> / Result<T>
Result(kind, value, error) == [kind |-> kind, value |-> value, error |-> error]

Nothing == Result("Nothing", NoMessage, "")
None == Result("None", NoMessage, "")
Error(text) == Result("Error", NoMessage, text)
Some(m) == Result("Some", m, "")

sizeof_size == 4

\* the size written in the other byte order
SizeBytes_swapped(size) ==
  <<(size \div 16777216) % 256, (size \div 65536) % 256, (size \div 256) % 256,
    size % 256>>

\* uint32_t size as the bytes ::write receives (little-endian host)
SizeBytes(size) ==
  <<size % 256, (size \div 256) % 256, (size \div 65536) % 256,
    (size \div 16777216) % 256>>

\* memcpy(&size, data, sizeof(size)); the bytes of the model are below 128,
\* so the value stays within the integers of the checker
SizeValue(b) == b[1] + 256 * b[2] + 65536 * b[3] + 16777216 * b[4]

\* os::read(fd, size): loops over ::read until size bytes or end of file;
\* failAfter >= 0 makes the ::read that follows failAfter bytes fail
os_read(file, pos, size, failAfter) ==
  LET n == Min(size, Len(file) - pos)
      k == Min(Min(failAfter, n), size - 1)
  IN  IF size > 0 /\ failAfter >= 0
      THEN [kind |-> "Error", data |-> <<>>, pos |-> pos + k]
      ELSE IF size > 0 /\ n = 0
      THEN [kind |-> "None", data |-> <<>>, pos |-> pos]
      ELSE [kind |-> "Some", data |-> SubSeq(file, pos + 1, pos + n),
            pos |-> pos + n]

\* ::write of bytes at offset pos: overwrites, and extends the file
WriteAt(file, pos, bytes) ==
  SubSeq(file, 1, pos) \o bytes \o SubSeq(file, pos + Len(bytes) + 1, Len(file))

\* os::write(fd, bytes) and the writes of SerializeToFileDescriptor;
\* failAfter >= 0 makes the ::write that follows failAfter bytes fail
os_write(file, pos, bytes, failAfter) ==
  IF failAfter >= 0 /\ Len(bytes) > 0
  THEN LET k == Min(failAfter, Len(bytes) - 1)
       IN  [ok |-> FALSE, file |-> WriteAt(file, pos, SubSeq(bytes, 1, k)),
            pos |-> pos + k]
  ELSE [ok |-> TRUE, file |-> WriteAt(file, pos, bytes), pos |-> pos + Len(bytes)]

NoFault == [at |-> "none", after |-> 0]

FailAfter(fault, at) == IF fault.at = at THEN fault.after ELSE -1

\* a write that does not check IsInitialized: the set fields reach the file
write_unchecked(file, pos, message, fault) ==
  LET w1 == os_write(file, pos, SizeBytes(ByteSize(message)),
                     FailAfter(fault, "size"))
      w2 == os_write(w1.file, w1.pos, Serialize(message),
                     FailAfter(fault, "message"))
  IN  IF ~w1.ok
      THEN [result |-> Error("Failed to write size: "),
            file |-> w1.file, pos |-> w1.pos]
      ELSE IF ~w2.ok
      THEN [result |-> Error("Failed to write/serialize message"),
            file |-> w2.file, pos |-> w2.pos]
      ELSE [result |-> Nothing, file |-> w2.file, pos |-> w2.pos]

\* Try<Nothing> write(int fd, const Message& message)
write(file, pos, message, fault) ==
  IF ~IsInitialized(message)
  THEN [result |-> Error("is required but not initialized"),
        file |-> file, pos |-> pos]
  ELSE
    LET size == ByteSize(message)   \* uint32_t; a payload is far below 2^32 bytes
        w1 == os_write(file, pos, SizeBytes(size), FailAfter(fault, "size"))
        w2 == os_write(w1.file, w1.pos, Serialize(message),
                       FailAfter(fault, "message"))
    IN  IF ~w1.ok
        THEN [result |-> Error("Failed to write size: "),
              file |-> w1.file, pos |-> w1.pos]
        ELSE IF ~w2.ok
        THEN [result |-> Error("Failed to write/serialize message"),
              file |-> w2.file, pos |-> w2.pos]
        ELSE [result |-> Nothing, file |-> w2.file, pos |-> w2.pos]

\* --------------------------------------------- write(path) and append(path)
\* a write(path) that opens the file without O_TRUNC
write_path_keep(file, message, fault) ==
  IF fault.at = "open"
  THEN [result |-> Error("Failed to open file"), file |-> file]
  ELSE LET result == write(file, 0, message, fault)
       IN  [result |-> result.result, file |-> result.file]

\* Try<Nothing> write(const std::string& path, const Message& message):
\* O_WRONLY | O_CREAT | O_TRUNC, write(fd, message), close, return result
write_path(file, message, fault) ==
  IF fault.at = "open"
  THEN [result |-> Error("Failed to open file"), file |-> file]
  ELSE LET result == write(<<>>, 0, message, fault)
       IN  [result |-> result.result, file |-> result.file]

\* Try<Nothing> append(const std::string& path, const Message& message):
\* O_WRONLY | O_CREAT | O_APPEND, write(fd, message), close, return result
append(file, message, fault) ==
  IF fault.at = "open"
  THEN [result |-> Error("Failed to open file"), file |-> file]
  ELSE LET result == write(file, Len(file), message, fault)
       IN  [result |-> result.result, file |-> result.file]

\* a failed read that forgets to restore the offset
Undo_forgotten(undoFailed, offset, p) == p

\* if (undoFailed) { lseek(fd, offset, SEEK_SET); }: the offset of fd after it
Undo(undoFailed, offset, p) == IF undoFailed THEN offset ELSE p

\* an unexpected end of file that is always reported as an error
HitEOF_strict(ignorePartial, text) == Error(text)

\* if (ignorePartial) { return None(); } return Error(...);
HitEOF(ignorePartial, text) == IF ignorePartial THEN None ELSE Error(text)

\* Result<T> read(int fd, bool ignorePartial, bool undoFailed)
read(file, pos, ignorePartial, undoFailed, fault) ==
  LET offset == IF undoFailed THEN pos ELSE 0
      undo(p) == Undo(undoFailed, offset, p)
      r1 == os_read(file, pos, sizeof_size, FailAfter(fault, "size"))
      size == SizeValue(r1.data)
      r2 == os_read(file, r1.pos, size, FailAfter(fault, "message"))
      parsed == ParseFromZeroCopyStream(StreamType, r2.data)
  IN
  IF undoFailed /\ fault.at = "lseek"
  THEN [result |-> Error("Failed to lseek to SEEK_CUR"), pos |-> pos]
  ELSE IF r1.kind = "Error"
  THEN [result |-> Error("Failed to read size: "), pos |-> undo(r1.pos)]
  ELSE IF r1.kind = "None"
  THEN [result |-> None, pos |-> r1.pos]
  ELSE IF Len(r1.data) < sizeof_size
  THEN [result |-> HitEOF(ignorePartial,
                 "Failed to read size: hit EOF unexpectedly, possible corruption"),
        pos |-> undo(r1.pos)]
  ELSE IF r2.kind = "Error"
  THEN [result |-> Error("Failed to read message: "), pos |-> undo(r2.pos)]
  ELSE IF r2.kind = "None" \/ Len(r2.data) < size
  THEN [result |-> HitEOF(ignorePartial,
                 "Failed to read message: hit EOF unexpectedly, possible corruption"),
        pos |-> undo(r2.pos)]
  ELSE IF ~parsed.ok
  THEN [result |-> Error("Failed to deserialize message"), pos |-> undo(r2.pos)]
  ELSE [result |-> Some(parsed.msg), pos |-> r2.pos]

\* ------------------------------------------------------ inputs of the stream
\* the messages the caller hands to write: two initialized ones and two
\* with the required field unset
RoleMessage(hasName, name, hasWeight, weight) ==
  [type |-> "RoleInfo",
   has |-> [name |-> hasName, weight |-> hasWeight],
   val |-> [name |-> name, weight |-> weight]]

WriteMessages ==
  { RoleMessage(TRUE, Str_a, FALSE, N(1)),
    RoleMessage(TRUE, Str_empty, TRUE, N(2)),
    RoleMessage(FALSE, Str_empty, FALSE, N(1)),
    RoleMessage(FALSE, Str_empty, TRUE, N(2)) }

WriteFaults(m) ==
  {NoFault}
    \cup {[at |-> "size", after |-> k] : k \in 0..(sizeof_size - 1)}
    \cup {[at |-> "message", after |-> k] : k \in {0, 1, ByteSize(m) - 1}}

\* os::open and os::close: "open" makes os::open fail, "close" makes
\* os::close fail; the other faults are those of the writes
PathFaults(m) ==
  WriteFaults(m) \cup {[at |-> "open", after |-> 0], [at |-> "close", after |-> 0]}

ReadFaults ==
  {NoFault, [at |-> "lseek", after |-> 0]}
    \cup {[at |-> a, after |-> 1] : a \in {"size", "message"}}

Call(name, message, ignorePartial, undoFailed, fault) ==
  [name |-> name, message |-> message, ignorePartial |-> ignorePartial,
   undoFailed |-> undoFailed, fault |-> fault]

\* ----------------------------------------------------- actions of the stream
StreamInit ==
  /\ content = <<>>
  /\ cursor = 0
  /\ ret = Nothing
  /\ call = Call("open", NoMessage, FALSE, FALSE, NoFault)
  /\ old = [content |-> <<>>, cursor |-> 0]
  /\ written = <<>>
  /\ dirty = FALSE
  /\ rd = -1
  /\ faults = 0

\* the caller writes one message at the end of the file
Write(message, fault) ==
  LET w == write(content, cursor, message, fault)
      failed == fault # NoFault /\ IsInitialized(message)
  IN  /\ cursor = Len(content)
      /\ Len(content) + sizeof_size + ByteSize(message) <= MaxFileLen
      /\ failed => faults < MaxFaults
      /\ content' = w.file
      /\ cursor' = w.pos
      /\ ret' = w.result
      /\ call' = Call("write", message, FALSE, FALSE, fault)
      /\ old' = [content |-> content, cursor |-> cursor]
      /\ written' = IF w.result = Nothing THEN Append(written, message)
                    ELSE written
      /\ dirty' = (dirty \/ failed)
      /\ rd' = -1
      /\ faults' = IF failed THEN faults + 1 ELSE faults

\* the caller reads the next message
Read(ignorePartial, undoFailed, fault) ==
  LET r == read(content, cursor, ignorePartial, undoFailed, fault)
  IN  /\ cursor' = r.pos
      /\ ret' = r.result
      /\ call' = Call("read", NoMessage, ignorePartial, undoFailed, fault)
      /\ old' = [content |-> content, cursor |-> cursor]
      /\ rd' = IF rd >= 0 /\ fault = NoFault
               THEN Min(rd + 1, Len(written) + 2) ELSE -1
      /\ UNCHANGED <<content, written, dirty, faults>>

\* the caller moves the cursor: lseek(fd, p, SEEK_SET)
Seek(p) ==
  /\ cursor' = p
  /\ ret' = Nothing
  /\ call' = Call("lseek", NoMessage, FALSE, FALSE, NoFault)
  /\ old' = [content |-> content, cursor |-> p]
  /\ rd' = IF p = 0 THEN 0 ELSE -1
  /\ UNCHANGED <<content, written, dirty, faults>>



\* ------------------------------------------------- claims about the stream
\* the bytes from offset p to the end of file are a truncated frame: one to
\* three bytes of prefix, or a whole prefix and fewer payload bytes than it
\* announces
Truncated(file, p) ==
  LET rem == Len(file) - p
  IN  \/ rem \in 1..(sizeof_size - 1)
      \/ /\ rem >= sizeof_size
         /\ rem - sizeof_size < SizeValue(SubSeq(file, p + 1, p + sizeof_size))

\* C1: a read called with undoFailed = true that does not return a message
\* (error or end-of-stream marker, whatever failed) leaves the cursor of the
\* handle where the call found it.
C1_UndoFailedRestoresCursor ==
  (call.name = "read" /\ call.undoFailed /\ ret.kind # "Some")
    => cursor = old.cursor

\* a read with undoFailed had consumed a whole prefix, met a short payload,
\* reported it and put the cursor back
C1_Witness ==
  /\ call.name = "read" /\ call.undoFailed /\ ~call.ignorePartial
  /\ call.fault = NoFault
  /\ ret.kind = "Error"
  /\ Len(old.content) - old.cursor >= sizeof_size
  /\ Truncated(old.content, old.cursor)
  /\ cursor = old.cursor

\* C2: when k messages were written one after another to the fresh handle
\* and the cursor rewound to 0, the rd-th read since then returns the rd-th
\* written message for rd <= k, and the end-of-stream marker for every later
\* read, whatever ignorePartial and undoFailed are (no I/O failure injected).
C2_FramesReadBackInOrder ==
  (call.name = "read" /\ call.fault = NoFault /\ ~dirty /\ rd >= 1)
    => ret = IF rd <= Len(written) THEN Some(written[rd]) ELSE None

\* two different messages were written and read back, and the third read
\* found the end of the data
C2_Witness ==
  /\ call.name = "read" /\ call.fault = NoFault /\ ~dirty
  /\ Len(written) = 2 /\ written[1] # written[2]
  /\ rd = 3
  /\ ret = None
  /\ cursor = Len(content)

\* C3: a read that finds a truncated frame at the cursor (no I/O failure
\* injected) returns an error when ignorePartial is false and the
\* end-of-stream marker when it is true, never a message.
C3_TruncatedFrame ==
  (call.name = "read" /\ call.fault = NoFault
     /\ Truncated(old.content, old.cursor))
    => ret.kind = (IF call.ignorePartial THEN "None" ELSE "Error")

\* a read with ignorePartial met a whole prefix followed by too few payload
\* bytes and returned the end-of-stream marker
C3_Witness ==
  /\ call.name = "read" /\ call.fault = NoFault /\ call.ignorePartial
  /\ Len(old.content) - old.cursor > sizeof_size
  /\ Truncated(old.content, old.cursor)
  /\ ret = None

\* C4: write of a message that is not initialized returns an error and
\* leaves content and cursor as they were; write of an initialized message
\* without I/O failure returns Nothing and adds one frame at the end: four
\* bytes holding the payload length, then the serialized message.
C4_WriteFrame ==
  call.name = "write" =>
    LET p == old.cursor
    IN  /\ ~IsInitialized(call.message) =>
             /\ ret.kind = "Error"
             /\ content = old.content
             /\ cursor = old.cursor
        /\ (IsInitialized(call.message) /\ call.fault = NoFault) =>
             /\ ret = Nothing
             /\ Len(content) >= p + sizeof_size
             /\ SubSeq(content, 1, p) = old.content
             /\ SizeValue(SubSeq(content, p + 1, p + sizeof_size))
                  = Len(content) - p - sizeof_size
             /\ SizeValue(SubSeq(content, p + 1, p + sizeof_size))
                  = ByteSize(call.message)
             /\ SubSeq(content, p + sizeof_size + 1, Len(content))
                  = Serialize(call.message)
             /\ cursor = Len(content)

\* a message with a set field but without its required field was handed to
\* write on a file that already holds a frame, and was refused
C4_Witness ==
  /\ call.name = "write"
  /\ ~IsInitialized(call.message) /\ call.message.has["weight"]
  /\ old.content # <<>>
  /\ ret.kind = "Error"
  /\ content = old.content


\* ---------------------------------------------------------- JSON values
\* JSON::Value: the alternative held ("kind") and its payload; the payloads
\* of the other alternatives are kept at a neutral value: members of an
\* Object, values of an Array, str of a String, num of a Number (a double),
\* bool of a Boolean
JValue(kind, members, values, str, num, bool) ==
  [kind |-> kind, members |-> members, values |-> values, str |-> str,
   num |-> num, bool |-> bool]

JObject(members) == JValue("Object", members, <<>>, <<>>, N(0), FALSE)
JArray(values) == JValue("Array", <<>>, values, <<>>, N(0), FALSE)
JString(value) == JValue("String", <<>>, <<>>, value, N(0), FALSE)
JNumber(value) == JValue("Number", <<>>, <<>>, <<>>, value, FALSE)
JBoolean(value) == JValue("Boolean", <<>>, <<>>, <<>>, N(0), value)
JNull == JValue("Null", <<>>, <<>>, <<>>, N(0), FALSE)

Member(name, value) == [name |-> name, value |-> value]

\* the keys of the model in the order of std::map<std::string, Value>
KeyOrder ==
  << "extra", "flag", "framework_id", "ids", "name", "nanoseconds", "roles",
     "status", "statuses", "timestamp", "value", "weight", "zzz" >>

Rank(name) == CHOOSE i \in 1..Len(KeyOrder) : KeyOrder[i] = name

\* object.values[name] = value
Insert(members, name, value) ==
  LET at == {i \in 1..Len(members) : members[i].name = name}
      k == Cardinality({i \in 1..Len(members) :
                          Rank(members[i].name) < Rank(name)})
  IN  IF at # {}
      THEN [members EXCEPT ![CHOOSE i \in at : TRUE].value = value]
      ELSE SubSeq(members, 1, k) \o <<Member(name, value)>>
             \o SubSeq(members, k + 1, Len(members))

\* --------------------------------------------- JSON::Protobuf (to document)
\* a conversion that lists only the set fields (Reflection::ListFields)
Included_ListFields(message, f) ==
  IF is_repeated(f) THEN Len(message.val[f.name]) > 0 ELSE message.has[f.name]

\* the fields pushed to 'fields': repeated with members, set, or with default
Included(message, f) ==
  IF is_repeated(f) THEN Len(message.val[f.name]) > 0
  ELSE message.has[f.name] \/ f.has_default

RECURSIVE Protobuf(_), ProtobufFrom(_, _, _), FieldValue(_, _)
\* the JSON value of one element or of one singular field
FieldValue(f, v) ==
  CASE f.type = "TYPE_DOUBLE" -> JNumber(v)
    [] f.type = "TYPE_INT64" -> JNumber(ToDouble(v))
    [] f.type = "TYPE_BOOL" -> JBoolean(v)
    [] f.type = "TYPE_STRING" -> JString(v)
    [] f.type = "TYPE_MESSAGE" -> Protobuf(v)
    [] f.type = "TYPE_ENUM" -> JString(EnumName(v))

ProtobufFrom(message, i, members) ==
  IF i > Len(Descriptor(message.type)) THEN members
  ELSE LET f == Descriptor(message.type)[i]
           v == message.val[f.name]
       IN  IF ~Included(message, f) THEN ProtobufFrom(message, i + 1, members)
           ELSE IF is_repeated(f)
           THEN ProtobufFrom(message, i + 1,
                  Insert(members, f.name,
                         JArray([k \in 1..Len(v) |-> FieldValue(f, v[k])])))
           ELSE ProtobufFrom(message, i + 1,
                  Insert(members, f.name, FieldValue(f, v)))

Protobuf(message) == JObject(ProtobufFrom(message, 1, <<>>))

\* ---------------------------------------- protobuf::parse (from document)
\* Try<Nothing>: the error text, and the field name and the string value the
\* text is built from ("" and <<>> when it has none)
TryNothing == [isError |-> FALSE, text |-> "", field |-> "", value |-> <<>>]

TryError(text, field, value) ==
  [isError |-> TRUE, text |-> text, field |-> field, value |-> value]

\* reflection->SetX(message, field, v)
Set(message, f, v) ==
  [message EXCEPT !.has[f.name] = TRUE, !.val[f.name] = v]

\* an append that puts the new element first
Add_front(message, f, v) ==
  [message EXCEPT !.val[f.name] = <<v>> \o @]

\* reflection->AddX(message, field, v)
Add(message, f, v) ==
  [message EXCEPT !.val[f.name] = Append(@, v)]

Store(message, f, v) ==
  IF is_repeated(f) THEN Add(message, f, v) ELSE Set(message, f, v)

\* a String handler that knows TYPE_STRING only
StringTypes_string ==
  {"TYPE_STRING"}

\* the field types operator()(const JSON::String&) assigns the string to
StringTypes ==
  {"TYPE_STRING", "TYPE_BYTES"}

\* the field types operator()(const JSON::Number&) has a case for
NumberTypes ==
  {"TYPE_DOUBLE", "TYPE_FLOAT", "TYPE_INT64", "TYPE_SINT64", "TYPE_SFIXED64",
   "TYPE_UINT64", "TYPE_FIXED64", "TYPE_INT32", "TYPE_SINT32",
   "TYPE_SFIXED32", "TYPE_UINT32", "TYPE_FIXED32"}

\* the cast operator()(const JSON::Number&) applies to number.value
NumberCast(type, d) ==
  CASE type = "TYPE_DOUBLE" -> d
    [] type = "TYPE_FLOAT" -> CastFloat(d)
    [] type \in {"TYPE_INT64", "TYPE_SINT64", "TYPE_SFIXED64"} -> CastInt64(d)
    [] type \in {"TYPE_UINT64", "TYPE_FIXED64"} -> CastUInt64(d)
    [] type \in {"TYPE_INT32", "TYPE_SINT32", "TYPE_SFIXED32"} -> CastInt32(d)
    [] type \in {"TYPE_UINT32", "TYPE_FIXED32"} -> CastUInt32(d)

RECURSIVE Parser(_, _, _), ParserArray(_, _, _, _), internal_parse(_, _, _)
\* boost::apply_visitor(Parser(message, field), value): the result and the
\* message as the visitor leaves it
Parser(message, f, value) ==
  CASE value.kind = "Object" ->
         IF f.type = "TYPE_MESSAGE"
         THEN \* the result of the nested parse is dropped
              LET nested == IF is_repeated(f) THEN NewMessage(f.sub)
                            ELSE message.val[f.name]
                  r == internal_parse(nested, value.members, 1)
              IN  [result |-> TryNothing, msg |-> Store(message, f, r.msg)]
         ELSE [result |-> TryError("Not expecting a JSON object for field",
                                   f.name, <<>>),
               msg |-> message]
    [] value.kind = "String" ->
         IF f.type \in StringTypes
         THEN [result |-> TryNothing, msg |-> Store(message, f, value.str)]
         ELSE IF f.type = "TYPE_ENUM"
         THEN IF FindValueByName(value.str) = 0
              THEN [result |-> TryError("Failed to find enum for", "",
                                        value.str),
                    msg |-> message]
              ELSE [result |-> TryNothing,
                    msg |-> Store(message, f, FindValueByName(value.str))]
         ELSE [result |-> TryError("Not expecting a JSON string for field",
                                   f.name, <<>>),
               msg |-> message]
    [] value.kind = "Number" ->
         IF f.type \in NumberTypes
         THEN [result |-> TryNothing,
               msg |-> Store(message, f, NumberCast(f.type, value.num))]
         ELSE [result |-> TryError("Not expecting a JSON number for field",
                                   f.name, <<>>),
               msg |-> message]
    [] value.kind = "Array" ->
         IF ~is_repeated(f)
         THEN [result |-> TryError("Not expecting a JSON array for field",
                                   f.name, <<>>),
               msg |-> message]
         ELSE ParserArray(message, f, value.values, 1)
    [] value.kind = "Boolean" ->
         IF f.type = "TYPE_BOOL"
         THEN [result |-> TryNothing, msg |-> Store(message, f, value.bool)]
         ELSE [result |-> TryError("Not expecting a JSON boolean for field",
                                   f.name, <<>>),
               msg |-> message]
    [] value.kind = "Null" ->
         [result |-> TryError("Not expecting a JSON null", "", <<>>),
          msg |-> message]

\* foreach (const JSON::Value& value, array.values)
ParserArray(message, f, values, i) ==
  IF i > Len(values) THEN [result |-> TryNothing, msg |-> message]
  ELSE LET apply == Parser(message, f, values[i])
       IN  IF apply.result.isError THEN apply
           ELSE ParserArray(apply.msg, f, values, i + 1)

\* internal::parse(message, object): members from the i-th on
internal_parse(message, members, i) ==
  IF i > Len(members) THEN [result |-> TryNothing, msg |-> message]
  ELSE LET idx == FindFieldByName(message.type, members[i].name)
       IN  IF idx = 0 THEN internal_parse(message, members, i + 1)
           ELSE LET apply == Parser(message, Descriptor(message.type)[idx],
                                    members[i].value)
                IN  IF apply.result.isError THEN apply
                    ELSE internal_parse(apply.msg, members, i + 1)

\* a parse<T> that returns the message without looking at IsInitialized
parse_unchecked(T, value) ==
  IF value.kind # "Object"
  THEN [error |-> TryError("Expecting a JSON object", "", <<>>),
        value |-> NewMessage(T)]
  ELSE LET r == internal_parse(NewMessage(T), value.members, 1)
       IN  IF r.result.isError
           THEN [error |-> r.result, value |-> NewMessage(T)]
           ELSE [error |-> TryNothing, value |-> r.msg]

\* Try<T> parse(const JSON::Value& value)
parse(T, value) ==
  IF value.kind # "Object"
  THEN [error |-> TryError("Expecting a JSON object", "", <<>>),
        value |-> NewMessage(T)]
  ELSE LET r == internal_parse(NewMessage(T), value.members, 1)
       IN  IF r.result.isError
           THEN [error |-> r.result, value |-> NewMessage(T)]
           ELSE IF ~IsInitialized(r.msg)
           THEN [error |-> TryError("Missing required fields: ", "", <<>>),
                 value |-> NewMessage(T)]
           ELSE [error |-> TryNothing, value |-> r.msg]


\* ------------------------------------------------------ inputs of the codec
Negative(n) == [n EXCEPT !.neg = TRUE]

RoleUniverse ==
  { RoleMessage(hn, IF hn THEN n ELSE Str_empty, hw, IF hw THEN N(2) ELSE N(1)) :
      hn \in BOOLEAN, hw \in BOOLEAN, n \in {Str_a, Str_ops} }

RoleElements ==
  { RoleMessage(TRUE, Str_a, FALSE, N(1)), RoleMessage(TRUE, Str_ops, TRUE, N(2)) }

FrameworkIDUniverse ==
  { [type |-> "FrameworkID", has |-> [value |-> h],
     val |-> [value |-> IF h THEN Str_a ELSE Str_empty]] : h \in BOOLEAN }

TimeInfoUniverse ==
  { [type |-> "TimeInfo", has |-> [nanoseconds |-> TRUE],
     val |-> [nanoseconds |-> n]] :
      n \in {N(1), Negative(N(1)), P53, P53plus1, Negative(P53plus1)} }

InverseOfferStatusUniverse ==
  { [type |-> "InverseOfferStatus",
     has |-> [status |-> st # 0, framework_id |-> hf, timestamp |-> ht],
     val |-> [status |-> IF st = 0 THEN Status[1].number ELSE st,
              framework_id |-> IF hf THEN fw ELSE NewMessage("FrameworkID"),
              timestamp |-> IF ht THEN ts ELSE NewMessage("TimeInfo")]] :
      st \in {0, 2, 3}, hf \in BOOLEAN, ht \in BOOLEAN,
      fw \in FrameworkIDUniverse, ts \in TimeInfoUniverse }

SampleUniverse ==
  { [type |-> "Sample",
     has |-> [roles |-> FALSE, statuses |-> FALSE, ids |-> FALSE,
              flag |-> fl # 0],
     val |-> [roles |-> rs, statuses |-> ss, ids |-> is, flag |-> fl = 1]] :
      rs \in SeqsUpTo(RoleElements, MaxRepeated),
      ss \in SeqsUpTo({2, 3}, MaxRepeated),
      is \in SeqsUpTo({N(1), N(2)}, MaxRepeated),
      fl \in {0, 1, 2} }

MessageUniverse ==
  RoleUniverse \cup InverseOfferStatusUniverse \cup SampleUniverse

\* documents handed to parse: per key the member is absent (<<>>) or has one
\* of the listed values, legal or not; "extra" and "zzz" name no field
Opt(name, values) == {<<>>} \cup {<<Member(name, v)>> : v \in values}

Unknown(name) == Opt(name, {JNull, JArray(<<JNumber(N(1))>>)})

RoleObjects ==
  { JObject(n \o w) :
      n \in Opt("name", {JString(Str_a), JNumber(N(1))}),
      w \in Opt("weight", {JNumber(N(2)), JNull}) }

RoleDocuments ==
  { JObject(e \o n \o w \o z) :
      e \in Unknown("extra"),
      n \in Opt("name", {JString(Str_ops), JNumber(N(1)), JNull,
                         JArray(<<JString(Str_a)>>)}),
      w \in Opt("weight", {JNumber(N(2)), JString(Str_a), JNull,
                           JArray(<<JNumber(N(2))>>)}),
      z \in Unknown("zzz") }

InverseOfferStatusDocuments ==
  { JObject(e \o f \o s \o t) :
      e \in Unknown("extra"),
      f \in Opt("framework_id",
                {JObject(<<Member("value", JString(Str_a))>>),
                 JObject(<<Member("value", JNull)>>),
                 JObject(<<Member("value", JNumber(N(1)))>>),
                 JObject(<<>>), JString(Str_a), JNull}),
      s \in Opt("status",
                {JString(Str_ACCEPT), JString(Str_BOGUS), JNull,
                 JArray(<<JString(Str_ACCEPT)>>), JNumber(N(2))}),
      t \in Opt("timestamp",
                {JObject(<<Member("nanoseconds", JNumber(N(1)))>>),
                 JObject(<<Member("nanoseconds", JString(Str_a))>>),
                 JObject(<<Member("nanoseconds",
                                  JArray(<<JNumber(N(1))>>))>>)}) }

SampleDocuments ==
  { JObject(e \o f \o i \o r \o s) :
      e \in Unknown("extra"),
      f \in Opt("flag", {JBoolean(TRUE), JNull, JArray(<<JBoolean(TRUE)>>)}),
      i \in Opt("ids",
                {JArray(<<JNumber(N(1)), JNumber(N(2))>>),
                 JArray(<<JArray(<<JNumber(N(1))>>),
                          JArray(<<JNumber(N(2))>>)>>),
                 JArray(<<JArray(<<>>)>>),
                 JNumber(N(1)),
                 JArray(<<JString(Str_a)>>)}),
      r \in Opt("roles",
                {JArray(<<o>>) : o \in RoleObjects}
                  \cup {JArray(<<JArray(<<o>>)>>) : o \in RoleObjects}
                  \cup {o \in RoleObjects : TRUE}
                  \cup {JNull}),
      s \in Opt("statuses",
                {JArray(<<JString(Str_ACCEPT), JString(Str_DECLINE)>>),
                 JArray(<<JString(Str_BOGUS)>>),
                 JArray(<<JArray(<<JString(Str_ACCEPT)>>)>>),
                 JString(Str_DECLINE),
                 JArray(<<JNull>>)}) }

\* the documents a caller hands over for a target of type T
Documents(T) ==
  CASE T = "RoleInfo" -> RoleDocuments \cup {JString(Str_a)}
    [] T = "InverseOfferStatus" -> InverseOfferStatusDocuments
    [] T = "Sample" -> SampleDocuments

CodecTypes == {"RoleInfo", "InverseOfferStatus", "Sample"}

\* a value a field of the given type holds before the conversion
OldValue(type) ==
  CASE type = "TYPE_BOOL" -> FALSE
    [] type \in {"TYPE_STRING", "TYPE_BYTES"} -> Str_b
    [] type = "TYPE_ENUM" -> Status[3].number
    [] type \in {"TYPE_MESSAGE", "TYPE_GROUP"} ->
         RoleMessage(TRUE, Str_b, TRUE, N(2))
    [] OTHER -> N(7)

\* an AllTypes message with every singular field set and one element in
\* every repeated field
AllTypesPopulated ==
  [type |-> "AllTypes",
   has |-> [n \in FieldNames("AllTypes") |-> n \in Range(SingularNames)],
   val |-> [n \in FieldNames("AllTypes") |->
              LET f == Descriptor("AllTypes")[FindFieldByName("AllTypes", n)]
              IN  IF is_repeated(f) THEN <<OldValue(f.type)>>
                  ELSE OldValue(f.type)]]

\* the JSON values handed to the visitor: an Object, an Object whose member
\* does not fit, a plain String, a String naming an enum value, Numbers,
\* a Boolean
DispatchValues ==
  { JObject(<<Member("name", JString(Str_a))>>),
    JObject(<<Member("name", JNumber(N(1)))>>),
    JString(Str_a), JString(Str_ACCEPT),
    JNumber(N(1)), JNumber(P24plus1),
    JBoolean(TRUE) }

\* one member per document: the field the visitor is built for and the value
DispatchDocuments ==
  { JObject(<<Member(n, v)>>) :
      n \in FieldNames("AllTypes"), v \in DispatchValues }

\* ------------------------------------------------------- the codec's state
VARIABLES
  message,   \* the message instance of the caller
  document,  \* the JSON value of the caller
  origin,    \* where document comes from: "none", "Protobuf" or "caller"
  before,    \* message when the last internal::parse started
  status,    \* Try<Nothing> of the last internal::parse
  parsed,    \* Try<T> of the last parse<T>
  op         \* the last operation

codecVars == <<message, document, origin, before, status, parsed, op>>

NotParsed == [error |-> TryNothing, value |-> NoMessage]

CodecIdle ==
  /\ message = NoMessage
  /\ document = JNull
  /\ origin = "none"
  /\ before = NoMessage
  /\ status = TryNothing
  /\ parsed = NotParsed
  /\ op = "init"

\* the caller holds a message to convert, or a document and the fresh
\* target (T message;) to convert it into
CodecInit ==
  /\ status = TryNothing
  /\ parsed = NotParsed
  /\ \/ /\ message \in MessageUniverse
        /\ document = JNull
        /\ origin = "none"
        /\ op = "init"
     \/ \E T \in CodecTypes :
          /\ message = NewMessage(T)
          /\ document \in Documents(T)
          /\ origin = "caller"
          /\ op = "receive"
  /\ before = message

\* the caller holds an AllTypes message, fresh or populated, and a document
\* with one member for one of its fields
DispatchInit ==
  /\ status = TryNothing
  /\ parsed = NotParsed
  /\ message \in {NewMessage("AllTypes"), AllTypesPopulated}
  /\ document \in DispatchDocuments
  /\ origin = "caller"
  /\ op = "receive"
  /\ before = message

\* JSON::Object object = JSON::Protobuf(message)
ToDocument ==
  /\ document' = Protobuf(message)
  /\ origin' = "Protobuf"
  /\ op' = "Protobuf"
  /\ UNCHANGED <<message, before, status, parsed>>

\* internal::parse(&message, object) on the fresh target
InternalParse ==
  /\ op = "receive"
  /\ document.kind = "Object"
  /\ LET r == internal_parse(message, document.members, 1)
     IN  /\ message' = r.msg
         /\ status' = r.result
  /\ before' = message
  /\ op' = "internal::parse"
  /\ UNCHANGED <<document, origin, parsed>>

\* protobuf::parse<T>(document), T the type of the caller's message
Parse ==
  /\ op \in {"Protobuf", "receive"}
  /\ parsed' = parse(message.type, document)
  /\ op' = "parse<T>"
  /\ UNCHANGED <<message, document, origin, before, status>>

\* ------------------------------------- one file, a writer and a reader
\* The writer holds one handle of the file and appends frames with write;
\* the reader holds another handle and calls read<T>(fd, true, true) again
\* and again.  The ::write and ::read system calls of the two interleave:
\* content is the file, cursor the offset of the reader's handle, ret the
\* result of the reader's last read, written the frames the writer completed.
VARIABLES
  reader,    \* where the reader is inside read and the locals of the call
  writer,    \* the message being written and its bytes not yet in the file
  returned   \* the messages the reader's reads returned, in order

sharedVars == <<reader, writer, returned>>

ReaderIdle ==
  [pc |-> "idle", offset |-> 0, buffer |-> <<>>, size |-> 0, short |-> FALSE]

WriterIdle == [message |-> NoMessage, bytes |-> <<>>]

SharedIdle ==
  /\ reader = ReaderIdle
  /\ writer = WriterIdle
  /\ returned = <<>>

\* a length check that never finds the data short
ShortRead_never(data, size) == FALSE

\* result.get().size() < size
ShortRead(data, size) == Len(data) < size

\* the writer calls write(fd, message): the message is initialized, the
\* prefix and the payload are handed to ::write
WriterBegin(m) ==
  /\ writer.bytes = <<>>
  /\ IsInitialized(m)
  /\ Len(content) + sizeof_size + ByteSize(m) <= MaxFileLen
  /\ writer' = [message |-> m, bytes |-> SizeBytes(ByteSize(m)) \o Serialize(m)]
  /\ UNCHANGED <<streamVars, codecVars, reader, returned>>

\* the next k bytes of the frame reach the file; write returns after the last
WriterStep(k) ==
  /\ k \in 1..Len(writer.bytes)
  /\ content' = content \o SubSeq(writer.bytes, 1, k)
  /\ writer' = [writer EXCEPT !.bytes = SubSeq(@, k + 1, Len(@))]
  /\ written' = IF k = Len(writer.bytes) THEN Append(written, writer.message)
                ELSE written
  /\ UNCHANGED <<cursor, ret, call, old, dirty, rd, faults, codecVars,
                 reader, returned>>

\* the reader calls read: offset = lseek(fd, 0, SEEK_CUR), then
\* os::read(fd, sizeof(size)) starts
ReaderBegin ==
  /\ reader.pc = "idle"
  /\ reader' = [pc |-> "size", offset |-> cursor,
                buffer |-> <<>>, size |-> sizeof_size, short |-> FALSE]
  /\ UNCHANGED <<streamVars, codecVars, writer, returned>>

\* one ::read inside os::read returns k bytes of those in the file
ReaderRead(k) ==
  /\ reader.pc \in {"size", "message"}
  /\ k \in 1..Min(reader.size - Len(reader.buffer), Len(content) - cursor)
  /\ reader' = [reader EXCEPT
                  !.buffer = @ \o SubSeq(content, cursor + 1, cursor + k)]
  /\ cursor' = cursor + k
  /\ UNCHANGED <<content, ret, call, old, written, dirty, rd, faults,
                 codecVars, writer, returned>>

\* os::read(fd, sizeof(size)) returned, with the whole prefix or because
\* ::read returned 0: None, a short prefix, or the size of the payload
ReaderSize ==
  /\ reader.pc = "size"
  /\ Len(reader.buffer) = sizeof_size \/ Len(content) = cursor
  /\ IF reader.buffer = <<>>
     THEN /\ ret' = None
          /\ cursor' = cursor
          /\ reader' = [reader EXCEPT !.pc = "idle"]
     ELSE IF Len(reader.buffer) < sizeof_size
     THEN /\ ret' = HitEOF(TRUE, "Failed to read size: hit EOF unexpectedly, possible corruption")
          /\ cursor' = Undo(TRUE, reader.offset, cursor)
          /\ reader' = [reader EXCEPT !.pc = "idle", !.short = TRUE]
     ELSE /\ ret' = ret
          /\ cursor' = cursor
          /\ reader' = [reader EXCEPT !.pc = "message", !.buffer = <<>>,
                                      !.size = SizeValue(reader.buffer)]
  /\ UNCHANGED <<content, call, old, written, dirty, rd, faults, codecVars,
                 writer, returned>>

\* os::read(fd, size) returned, with the whole payload or because ::read
\* returned 0: a short payload, or ParseFromZeroCopyStream and the message
ReaderMessage ==
  /\ reader.pc = "message"
  /\ Len(reader.buffer) = reader.size \/ Len(content) = cursor
  /\ LET parsed_ == ParseFromZeroCopyStream(StreamType, reader.buffer)
     IN  IF \/ reader.buffer = <<>> /\ reader.size > 0
            \/ ShortRead(reader.buffer, reader.size)
         THEN /\ ret' = HitEOF(TRUE, "Failed to read message: hit EOF unexpectedly, possible corruption")
              /\ cursor' = Undo(TRUE, reader.offset, cursor)
              /\ returned' = returned
              /\ reader' = [reader EXCEPT !.pc = "idle", !.short = TRUE]
         ELSE IF ~parsed_.ok
         THEN /\ ret' = Error("Failed to deserialize message")
              /\ cursor' = Undo(TRUE, reader.offset, cursor)
              /\ returned' = returned
              /\ reader' = [reader EXCEPT !.pc = "idle"]
         ELSE /\ ret' = Some(parsed_.msg)
              /\ cursor' = cursor
              /\ returned' = Append(returned, parsed_.msg)
              /\ reader' = [reader EXCEPT !.pc = "idle"]
  /\ UNCHANGED <<content, call, old, written, dirty, rd, faults, codecVars,
                 writer>>

WriterNext ==
  \/ \E m \in WriteMessages : WriterBegin(m)
  \/ \E k \in 1..MaxFileLen : WriterStep(k)

ReaderNext ==
  \/ ReaderBegin
  \/ \E k \in 1..MaxFileLen : ReaderRead(k)
  \/ ReaderSize
  \/ ReaderMessage

\* ------------------------------------ calls of write(path) and append(path)
\* the caller calls write(path, message)
WritePath(m, fault) ==
  LET w == write_path(content, m, fault)
      failed == fault.at \in {"size", "message"} /\ IsInitialized(m)
  IN  /\ failed => faults < MaxFaults
      /\ content' = w.file
      /\ ret' = w.result
      /\ call' = Call("write(path)", m, FALSE, FALSE, fault)
      /\ old' = [content |-> content, cursor |-> cursor]
      /\ faults' = IF failed THEN faults + 1 ELSE faults
      /\ UNCHANGED <<cursor, written, dirty, rd, codecVars, sharedVars>>

\* the caller calls append(path, message)
AppendPath(m, fault) ==
  LET w == append(content, m, fault)
      failed == fault.at \in {"size", "message"} /\ IsInitialized(m)
  IN  /\ Len(content) + sizeof_size + ByteSize(m) <= MaxFileLen
      /\ failed => faults < MaxFaults
      /\ content' = w.file
      /\ ret' = w.result
      /\ call' = Call("append", m, FALSE, FALSE, fault)
      /\ old' = [content |-> content, cursor |-> cursor]
      /\ faults' = IF failed THEN faults + 1 ELSE faults
      /\ UNCHANGED <<cursor, written, dirty, rd, codecVars, sharedVars>>

\* ------------------------------------------------------ the specifications
vars == <<streamVars, codecVars, sharedVars>>

Init == StreamInit /\ CodecIdle /\ SharedIdle

Next ==
  \/ /\ \E m \in WriteMessages : \E f \in WriteFaults(m) : Write(m, f)
     /\ UNCHANGED <<codecVars, sharedVars>>
  \/ /\ \E ip \in BOOLEAN, uf \in BOOLEAN, f \in ReadFaults : Read(ip, uf, f)
     /\ UNCHANGED <<codecVars, sharedVars>>
  \/ /\ \E p \in 0..Len(content) : Seek(p)
     /\ UNCHANGED <<codecVars, sharedVars>>

Spec == Init /\ [][Next]_vars

InitCodec == StreamInit /\ CodecInit /\ SharedIdle

NextCodec ==
  \/ ToDocument /\ UNCHANGED <<streamVars, sharedVars>>
  \/ InternalParse /\ UNCHANGED <<streamVars, sharedVars>>
  \/ Parse /\ UNCHANGED <<streamVars, sharedVars>>

SpecCodec == InitCodec /\ [][NextCodec]_vars

InitDispatch == StreamInit /\ DispatchInit /\ SharedIdle

NextDispatch == InternalParse /\ UNCHANGED <<streamVars, sharedVars>>

SpecDispatch == InitDispatch /\ [][NextDispatch]_vars

\* the reader calls read again and again: its steps are not postponed forever
NextShared == WriterNext \/ ReaderNext

SpecShared == Init /\ [][NextShared]_vars /\ WF_vars(ReaderNext)

NextPath ==
  \/ \E m \in WriteMessages : \E f \in PathFaults(m) : WritePath(m, f)
  \/ \E m \in WriteMessages : \E f \in PathFaults(m) : AppendPath(m, f)

SpecPath == Init /\ [][NextPath]_vars


\* -------------------------------------------------- claims about the codec
\* a and b read the same through the reflection getters: same elements in
\* the same order for a repeated field, same presence for a singular field
\* without default, same value (recursively for messages)
RECURSIVE FieldEqual(_, _)
FieldEqual(a, b) ==
  /\ a.type = b.type
  /\ \A i \in 1..Len(Descriptor(a.type)) :
       LET f == Descriptor(a.type)[i]
           x == a.val[f.name]
           y == b.val[f.name]
       IN  IF is_repeated(f)
           THEN /\ Len(x) = Len(y)
                /\ \A k \in 1..Len(x) :
                     IF f.type = "TYPE_MESSAGE" THEN FieldEqual(x[k], y[k])
                     ELSE x[k] = y[k]
           ELSE /\ f.has_default \/ (a.has[f.name] = b.has[f.name])
                /\ IF f.type = "TYPE_MESSAGE"
                   THEN (a.has[f.name] /\ b.has[f.name]) => FieldEqual(x, y)
                   ELSE x = y

\* every 64-bit integer of the message, at any depth, is a value a double
\* holds exactly
RECURSIVE Int64Exact(_)
Int64Exact(m) ==
  \A i \in 1..Len(Descriptor(m.type)) :
    LET f == Descriptor(m.type)[i]
        x == m.val[f.name]
        elems == IF is_repeated(f) THEN Range(x)
                 ELSE IF m.has[f.name] THEN {x} ELSE {}
    IN  /\ f.type = "TYPE_INT64" => \A v \in elems : ToDouble(v) = v
        /\ f.type = "TYPE_MESSAGE" => \A v \in elems : Int64Exact(v)

\* C5 as stated: for every initialized message M, parse<T>(JSON::Protobuf(M))
\* succeeds and yields a message field-equal to M.
C5_RoundTrip_AsStated ==
  (op = "parse<T>" /\ origin = "Protobuf" /\ IsInitialized(message))
    => (~parsed.error.isError /\ FieldEqual(parsed.value, message))

\* C5 (amended): for every initialized message M whose 64-bit integer fields
\* all hold values a double represents exactly, parse<T>(JSON::Protobuf(M))
\* succeeds and yields a message field-equal to M: scalars, repeated fields
\* in element order, nested messages, enums.
C5_RoundTrip ==
  (op = "parse<T>" /\ origin = "Protobuf" /\ IsInitialized(message)
     /\ Int64Exact(message))
    => (~parsed.error.isError /\ FieldEqual(parsed.value, message))

\* a message with two different nested messages, two different enum values,
\* two integers and a bool went through both converters and came back
\* field-equal (the defaulted weight of the first role now being set)
C5_Witness ==
  /\ op = "parse<T>" /\ origin = "Protobuf"
  /\ message.type = "Sample" /\ IsInitialized(message)
  /\ Len(message.val["roles"]) = 2
  /\ ~message.val["roles"][1].has["weight"]
  /\ message.val["roles"][1] # message.val["roles"][2]
  /\ Len(message.val["statuses"]) = 2
  /\ message.val["statuses"][1] # message.val["statuses"][2]
  /\ Len(message.val["ids"]) = 2
  /\ message.has["flag"]
  /\ ~parsed.error.isError
  /\ FieldEqual(parsed.value, message)
  /\ parsed.value.val["roles"][1].has["weight"]

\* what the conversion table allows: value is not legal for field f
RECURSIVE HasIllegalPair(_, _), IllegalValue(_, _)
IllegalValue(f, v) ==
  CASE v.kind = "Null" -> TRUE
    [] v.kind = "Object" ->
         f.type # "TYPE_MESSAGE" \/ HasIllegalPair(f.sub, v.members)
    [] v.kind = "String" ->
         ~(\/ f.type = "TYPE_STRING"
           \/ f.type = "TYPE_ENUM" /\ FindValueByName(v.str) # 0)
    [] v.kind = "Number" -> f.type \notin {"TYPE_DOUBLE", "TYPE_INT64"}
    [] v.kind = "Boolean" -> f.type # "TYPE_BOOL"
    [] v.kind = "Array" ->
         \/ ~is_repeated(f)
         \/ \E k \in 1..Len(v.values) :
              v.values[k].kind # "Array" /\ IllegalValue(f, v.values[k])

\* some (name, value) pair of the Object, or of an Object nested under a
\* message field, is illegal for its field (an array inside an array is
\* not judged here)
HasIllegalPair(T, members) ==
  \E i \in 1..Len(members) :
    LET idx == FindFieldByName(T, members[i].name)
    IN  idx # 0 /\ IllegalValue(Descriptor(T)[idx], members[i].value)

\* C6: internal::parse returns an error whenever some pair of the document,
\* at any nesting depth, is illegal for its field.
C6_FailFastAtEveryDepth ==
  (op = "internal::parse" /\ HasIllegalPair(before.type, document.members))
    => status.isError

\* one of the three rejected conversions: an Array for a non-repeated field,
\* a null, a String naming no value of the enum
Rejected(f, v) ==
  \/ v.kind = "Array" /\ ~is_repeated(f)
  \/ v.kind = "Null"
  \/ v.kind = "String" /\ f.type = "TYPE_ENUM" /\ FindValueByName(v.str) = 0

RECURSIVE HasRejected(_, _)
HasRejected(T, members) ==
  \E i \in 1..Len(members) :
    LET idx == FindFieldByName(T, members[i].name)
        f == Descriptor(T)[idx]
        v == members[i].value
        objects == IF v.kind = "Object" THEN {v}
                   ELSE IF v.kind = "Array"
                   THEN {o \in Range(v.values) : o.kind = "Object"}
                   ELSE {}
    IN  idx # 0 /\
          \/ Rejected(f, v)
          \/ v.kind = "Array" /\ is_repeated(f)
               /\ \E k \in 1..Len(v.values) : Rejected(f, v.values[k])
          \/ f.type = "TYPE_MESSAGE"
               /\ \E o \in objects : HasRejected(f.sub, o.members)

\* C7: when the first member of the document that names a field is one of
\* the three rejected conversions, parse<T> returns an error that carries the
\* name of that field; and whenever a rejected conversion occurs anywhere in
\* the document, parse<T> returns an error, never a message.
C7_RejectedConversionsNameTheField ==
  (op = "parse<T>" /\ origin = "caller" /\ document.kind = "Object") =>
    /\ \A i \in 1..Len(document.members) :
         LET T == message.type
             idx == FindFieldByName(T, document.members[i].name)
         IN  (/\ idx # 0
              /\ \A j \in 1..(i - 1) :
                   FindFieldByName(T, document.members[j].name) = 0
              /\ Rejected(Descriptor(T)[idx], document.members[i].value))
               => (/\ parsed.error.isError
                   /\ parsed.error.field = document.members[i].name)
    /\ HasRejected(message.type, document.members) => parsed.error.isError

\* C8: internal::parse returns an error for a document that gives a repeated
\* field an Array with an Array among its elements.
C8_ArrayOfArraysRejected ==
  (op = "internal::parse"
     /\ \E i \in 1..Len(document.members) :
          LET idx == FindFieldByName(before.type, document.members[i].name)
              v == document.members[i].value
          IN  /\ idx # 0
              /\ is_repeated(Descriptor(before.type)[idx])
              /\ v.kind = "Array"
              /\ \E k \in 1..Len(v.values) : v.values[k].kind = "Array")
    => status.isError

\* doc is the Object the claim describes for message m, at every level
RECURSIVE ShapeOK(_, _), EntryOK(_, _, _)
EntryOK(f, x, v) ==
  /\ v.kind \notin {"Null", "Array"}
  /\ CASE f.type = "TYPE_MESSAGE" -> ShapeOK(x, v)
       [] f.type = "TYPE_STRING" -> v.kind = "String" /\ v.str = x
       [] f.type = "TYPE_ENUM" -> v.kind = "String" /\ v.str = EnumName(x)
       [] f.type = "TYPE_BOOL" -> v.kind = "Boolean" /\ v.bool = x
       [] f.type = "TYPE_DOUBLE" -> v.kind = "Number" /\ v.num = x
       [] f.type = "TYPE_INT64" -> v.kind = "Number" /\ v.num = ToDouble(x)

ShapeOK(m, doc) ==
  LET T == m.type
      expected == { Descriptor(T)[i].name : i \in
                     { j \in 1..Len(Descriptor(T)) :
                         LET f == Descriptor(T)[j]
                         IN  IF is_repeated(f) THEN Len(m.val[f.name]) >= 1
                             ELSE m.has[f.name] \/ f.has_default } }
  IN  /\ doc.kind = "Object"
      /\ {doc.members[i].name : i \in 1..Len(doc.members)} = expected
      /\ Len(doc.members) = Cardinality(expected)
      /\ \A i \in 1..Len(doc.members) :
           LET f == Descriptor(T)[FindFieldByName(T, doc.members[i].name)]
               x == m.val[f.name]
               v == doc.members[i].value
           IN  IF is_repeated(f)
               THEN /\ v.kind = "Array"
                    /\ Len(v.values) = Len(x)
                    /\ \A k \in 1..Len(x) : EntryOK(f, x[k], v.values[k])
               ELSE EntryOK(f, x, v)

\* C9: in the document JSON::Protobuf makes of a message, at every nesting
\* level, a key is present exactly for the repeated fields with elements
\* (a non-empty Array, one entry per element in index order) and for the
\* singular fields that are set or declare a default (never an Array; the
\* default when unset); no value is null.
C9_DocumentShape ==
  op = "Protobuf" => ShapeOK(message, document)

\* a message with two roles, the first with its weight unset, and with no
\* status, no id and no flag became a document with the single key "roles",
\* whose first entry carries the default weight
C9_Witness ==
  /\ op = "Protobuf"
  /\ message.type = "Sample"
  /\ Len(message.val["roles"]) = 2
  /\ ~message.val["roles"][1].has["weight"]
  /\ message.val["statuses"] = <<>> /\ message.val["ids"] = <<>>
  /\ ~message.has["flag"]
  /\ Len(document.members) = 1
  /\ document.members[1].name = "roles"
  /\ Len(document.members[1].value.values) = 2
  /\ \E i \in 1..Len(document.members[1].value.values[1].members) :
       document.members[1].value.values[1].members[i]
         = Member("weight", JNumber(N(1)))

\* the members whose name is a field of T
RECURSIVE StripUnknown(_, _)
StripUnknown(T, members) ==
  IF members = <<>> THEN <<>>
  ELSE (IF Head(members).name \notin FieldNames(T) THEN <<>>
        ELSE <<Head(members)>>) \o StripUnknown(T, Tail(members))

\* C10: converting a document gives the outcome and the message that
\* converting it without its unknown keys gives, for internal::parse and for
\* parse<T>.
C10_UnknownKeysIgnored ==
  /\ op = "internal::parse" =>
       [result |-> status, msg |-> message]
         = internal_parse(before,
                          StripUnknown(before.type, document.members), 1)
  /\ (op = "parse<T>" /\ document.kind = "Object") =>
       parsed = parse(message.type,
                      JObject(StripUnknown(message.type, document.members)))

\* a document with an unknown key holding null, another holding an Array,
\* and known keys was converted: no error, and the known fields are set
C10_Witness ==
  /\ op = "internal::parse"
  /\ \E i \in 1..Len(document.members) :
       document.members[i] = Member("extra", JNull)
  /\ \E i \in 1..Len(document.members) :
       /\ document.members[i].name = "zzz"
       /\ document.members[i].value.kind = "Array"
  /\ Len(StripUnknown(before.type, document.members)) >= 2
  /\ ~status.isError
  /\ message # before

\* the Object leaves a required field of T unset: no member names it, or a
\* member gives a message field an Object (or Objects in an Array) that
\* leaves a required field of the nested type unset
RECURSIVE LeavesRequiredUnset(_, _)
LeavesRequiredUnset(T, members) ==
  \/ \E i \in 1..Len(Descriptor(T)) :
       /\ Descriptor(T)[i].label = "required"
       /\ \A k \in 1..Len(members) : members[k].name # Descriptor(T)[i].name
  \/ \E k \in 1..Len(members) :
       \E i \in 1..Len(Descriptor(T)) :
         LET f == Descriptor(T)[i]
             v == members[k].value
             objects == IF v.kind = "Object" THEN {v}
                        ELSE IF v.kind = "Array"
                        THEN {o \in Range(v.values) : o.kind = "Object"}
                        ELSE {}
         IN  /\ f.name = members[k].name
             /\ f.type = "TYPE_MESSAGE"
             /\ \E o \in objects : LeavesRequiredUnset(f.sub, o.members)

\* C11: parse<T> returns a message only if the message is initialized; a
\* document that is not an Object gives the error "Expecting a JSON object";
\* an Object that leaves a required field unset, at any depth, gives an
\* error, which is "Missing required fields" unless the conversion of a
\* member failed first; RoleInfo from {"name": "ops"} succeeds with name
\* "ops" and weight unset, reading as its default 1.0.
C11_ParseReturnsInitialized ==
  op = "parse<T>" =>
    /\ ~parsed.error.isError => IsInitialized(parsed.value)
    /\ document.kind # "Object" =>
         /\ parsed.error.isError
         /\ parsed.error.text = "Expecting a JSON object"
    /\ (document.kind = "Object"
          /\ LeavesRequiredUnset(message.type, document.members)) =>
         /\ parsed.error.isError
         /\ ~internal_parse(NewMessage(message.type), document.members,
                            1).result.isError
              => parsed.error.text = "Missing required fields: "
    /\ (message.type = "RoleInfo"
          /\ document = JObject(<<Member("name", JString(Str_ops))>>)) =>
         /\ ~parsed.error.isError
         /\ parsed.value.val["name"] = Str_ops
         /\ ~parsed.value.has["weight"]
         /\ parsed.value.val["weight"] = N(1)

\* RoleInfo was parsed from {"name": "ops"}: a message with name "ops" whose
\* weight reads 1.0
C11_Witness ==
  /\ op = "parse<T>" /\ origin = "caller"
  /\ message.type = "RoleInfo"
  /\ document = JObject(<<Member("name", JString(Str_ops))>>)
  /\ ~parsed.error.isError
  /\ parsed.value.has["name"]
  /\ parsed.value.val["weight"] = N(1)

\* the compatibility table: the value kind and the field type of a legal pair
TableAllows(f, v) ==
  \/ v.kind = "Object" /\ f.type = "TYPE_MESSAGE"
  \/ v.kind = "String" /\ f.type \in {"TYPE_STRING", "TYPE_BYTES"}
  \/ v.kind = "String" /\ f.type = "TYPE_ENUM"
       /\ v.str \in {Str_UNKNOWN, Str_ACCEPT, Str_DECLINE}
  \/ v.kind = "Number"
       /\ f.type \in {"TYPE_DOUBLE", "TYPE_FLOAT",
                      "TYPE_INT32", "TYPE_SINT32", "TYPE_SFIXED32",
                      "TYPE_UINT32", "TYPE_FIXED32",
                      "TYPE_INT64", "TYPE_SINT64", "TYPE_SFIXED64",
                      "TYPE_UINT64", "TYPE_FIXED64"}
  \/ v.kind = "Boolean" /\ f.type = "TYPE_BOOL"

\* the text of the error for an illegal pair
MismatchText(f, v) ==
  CASE v.kind = "Object" -> "Not expecting a JSON object for field"
    [] v.kind = "String" ->
         IF f.type = "TYPE_ENUM" THEN "Failed to find enum for"
         ELSE "Not expecting a JSON string for field"
    [] v.kind = "Number" -> "Not expecting a JSON number for field"
    [] v.kind = "Boolean" -> "Not expecting a JSON boolean for field"

\* what a legal pair stores: the string, the number of the named enum value,
\* the number in the width of the field (2^24 + 1 being 2^24 as a float),
\* the boolean, or the prior nested message with the members that fit
Converted(f, v, prior) ==
  CASE v.kind = "String" ->
         IF f.type = "TYPE_ENUM"
         THEN Status[CHOOSE i \in 1..Len(Status) : Status[i].name = v.str].number
         ELSE v.str
    [] v.kind = "Number" ->
         IF f.type = "TYPE_FLOAT" /\ v.num = P24plus1 THEN P24 ELSE v.num
    [] v.kind = "Boolean" -> v.bool
    [] v.kind = "Object" ->
         IF v.members[1].value.kind = "String"
         THEN [prior EXCEPT !.has["name"] = TRUE,
                            !.val["name"] = v.members[1].value.str]
         ELSE prior

\* C12: for a field of any type and a value that is an Object, a String, a
\* Number or a Boolean, the conversion succeeds exactly for the pairs of the
\* table; any other pair returns the mismatch error and leaves the message as
\* it was; on success a singular field is set to the value, a repeated field
\* gains exactly that one element at its end, and no other field changes.
C12_DispatchTable ==
  (op = "internal::parse" /\ before.type = "AllTypes") =>
    LET name == document.members[1].name
        v == document.members[1].value
        f == CHOOSE d \in Range(AllTypes) : d.name = name
        was == before.val[name]
        now == message.val[name]
    IN  /\ status.isError <=> ~TableAllows(f, v)
        /\ ~TableAllows(f, v) =>
             /\ message = before
             /\ status.text = MismatchText(f, v)
        /\ TableAllows(f, v) =>
             /\ \A n \in FieldNames("AllTypes") \ {name} :
                  /\ message.val[n] = before.val[n]
                  /\ message.has[n] = before.has[n]
             /\ IF is_repeated(f)
                THEN now = Append(was, Converted(f, v, NewMessage("RoleInfo")))
                ELSE /\ message.has[name]
                     /\ now = Converted(f, v, was)

\* the Number 2^24 + 1 was converted for the repeated float field of a
\* message that held one element: the field now holds two, the new one last
\* and narrowed to a float
C12_Witness ==
  /\ op = "internal::parse" /\ before = AllTypesPopulated
  /\ document = JObject(<<Member("floats", JNumber(P24plus1))>>)
  /\ ~status.isError
  /\ message.val["floats"] = <<N(7), P24>>

\* ------------------------------------- claims about the writer and reader
\* the offset at which the frame after the first n of the messages starts
RECURSIVE FrameStart(_, _)
FrameStart(messages, n) ==
  IF n = 0 THEN 0
  ELSE FrameStart(messages, n - 1) + sizeof_size + ByteSize(messages[n])

\* the messages handed to write so far, the one in progress included
Started ==
  IF writer.bytes # <<>> THEN Append(written, writer.message) ELSE written

IsPrefix(a, b) == Len(a) <= Len(b) /\ SubSeq(b, 1, Len(a)) = a

\* no frame is shorter than its prefix and one byte of payload
MaxFrames == MaxFileLen \div (sizeof_size + 1)

\* the reader never returns an error; what it has returned is a prefix of the
\* frames completed; between two reads its cursor is at the first byte of
\* the frame after those it returned; and a read that met the end of file
\* inside a frame returned the end-of-stream marker with the cursor there
C13_Safe ==
  /\ ret.kind # "Error"
  /\ IsPrefix(returned, written)
  /\ reader.pc = "idle" => cursor = FrameStart(Started, Len(returned))
  /\ (reader.pc = "idle" /\ reader.short) =>
       /\ ret = None
       /\ cursor = reader.offset
       /\ Len(returned) < Len(Started)

\* C13: with a writer appending frames piecewise and a reader calling
\* read(fd, true, true) again and again, in every interleaving a read that
\* meets an incomplete frame returns the end-of-stream marker and leaves the
\* cursor at the first byte of that frame, the messages returned are always
\* a prefix of the messages written, and every frame the writer has completed
\* is eventually returned by the reader.
C13_Interleaving ==
  /\ []C13_Safe
  /\ \A i \in 1..MaxFrames : (Len(written) >= i) ~> (Len(returned) >= i)

\* the reader has returned the first message, and its last read met the
\* second frame while the writer was inside it: end-of-stream marker, cursor
\* back at the first byte of the second frame, bytes of that frame beyond it
C13_Witness ==
  /\ reader.pc = "idle" /\ reader.short
  /\ writer.bytes # <<>>
  /\ Len(written) = 1 /\ returned = written
  /\ ret = None
  /\ cursor = FrameStart(written, 1)
  /\ Len(content) > cursor + sizeof_size

\* ------------------------------------------ claims about the path-based calls
\* the frame of a message: the four bytes of its length, then its payload
Frame(m) == SizeBytes(ByteSize(m)) \o Serialize(m)

\* C14: after append(path, M) the previous content is in place, followed by
\* the frame of M when M is initialized and by nothing when it is not; after
\* write(path, M) the file holds exactly the frame of M when M is
\* initialized, and is empty when it is not, the call returning the error of
\* the initialization check.  The result is that of write(fd, M), whether or
\* not close fails (os::open having succeeded, no ::write having failed).
C14_PathCalls ==
  (call.name \in {"append", "write(path)"}
     /\ call.fault.at \notin {"open", "size", "message"}) =>
    LET m == call.message
        kept == IF call.name = "append" THEN old.content ELSE <<>>
    IN  IF IsInitialized(m)
        THEN /\ content = kept \o Frame(m)
             /\ ret = Nothing
        ELSE /\ content = kept
             /\ ret = Error("is required but not initialized")

\* write(path, M) with M not initialized was called on a file that held a
\* frame, close failing: the file is empty and the error is that of the
\* initialization check
C14_Witness ==
  /\ call.name = "write(path)"
  /\ call.fault.at = "close"
  /\ ~IsInitialized(call.message)
  /\ old.content # <<>>
  /\ content = <<>>
  /\ ret.kind = "Error"

====
